---- MODULE Spec2Model ----
(***************************************************************************)
(* Model of app.py: a Streamlit session that keeps a depot, a list of      *)
(* passenger requests and a route plan, and re-solves a single-vehicle     *)
(* pickup-and-delivery problem after every change.                         *)
(*                                                                         *)
(* Coordinates are (lat, lon) pairs.  All coordinates of the model lie on  *)
(* one meridian (lon = 0) and lat is counted in arc units of               *)
(* 1/UnitsPerMetre metre, so that the haversine distance of get_distance   *)
(* is exactly |lat2 - lat1| / UnitsPerMetre metres before int() truncates  *)
(* it.                                                                     *)
(***************************************************************************)
EXTENDS Integers, Sequences, FiniteSets, TLC

\* the keys of st.session_state
VARIABLES depot, passengers, nearby_stops, temp_p, current_route_path,
          summary, metrics, last_click, mode

\* what the handler that ran last did: path_coords is the path its
\* solve_vrp call returned ([] when it made none or had none), event names
\* the handler, the branch it took and the calls it made
VARIABLES path_coords, event

\* what a call solve_vrp(depot, passengers) returned, for the specification
\* that calls solve_vrp alone
VARIABLE returned

vars == <<depot, passengers, nearby_stops, temp_p, current_route_path,
          summary, metrics, last_click, mode, path_coords, event, returned>>

\* ---------------------------------------------------------------- bounds
\* arc units per metre on the meridian
UnitsPerMetre == 2

\* largest number of requests the session is driven to
MaxPassengers == 2

\* the largest latitude of the three points given to get_distance alone
MaxLat == 6

\* ------------------------------------------------------------- constants
\* Python's None (no list or tuple of the session is ever empty where None
\* is an alternative)
None == << >>

\* capacity of the "Dist" dimension, in metres
DistCapacity == 100000

\* the depot of a new session, (37.661545, 126.747219)
InitDepot == <<20, 0>>

\* names used by update_system: "차고지" for the depot, "정류장" as fallback
DepotLabel == "Depot"

DefaultStopName == "Stop"

\* what the stop catalog provider answers when it answers; the last two
\* stops are at the same coordinates
Catalog ==
  << [name |-> "A", coords |-> <<0, 0>>],
     [name |-> "B", coords |-> <<3, 0>>],
     [name |-> "B2", coords |-> <<3, 0>>] >>

\* positions the user clicks on the map: on stop A, and 65 km north of it
Clicks == { <<0, 0>>, <<65000 * UnitsPerMetre, 0>> }

\* ------------------------------------------------------------ get_distance
Abs(x) == IF x < 0 THEN -x ELSE x

\* the square of the arc: the root of the haversine left out
get_distance_Squared(lat1, lon1, lat2, lon2) ==
  CASE lon1 = lon2 -> ((lat2 - lat1) * (lat2 - lat1)) \div UnitsPerMetre

\* int(2 R atan2(sqrt a, sqrt(1-a))): on one meridian the great-circle
\* distance is R*|dphi|, i.e. |lat2-lat1| arc units; int() truncates it to
\* whole metres
get_distance(lat1, lon1, lat2, lon2) ==
  CASE lon1 = lon2 -> Abs(lat2 - lat1) \div UnitsPerMetre

Dist(a, b) == get_distance(a[1], a[2], b[1], b[2])

\* ------------------------------------------------------------- solve_vrp
RECURSIVE Perms(_)
\* every order in which the nodes of S can be visited
Perms(S) ==
  IF S = {} THEN { <<>> }
  ELSE UNION { { <<x>> \o p : p \in Perms(S \ {x}) } : x \in S }

\* locs = [depot, pickup_1, dropoff_1, pickup_2, dropoff_2, ...], indexed
\* from 0 as in the source
Locs(d, ps) ==
  [ k \in 0 .. 2 * Len(ps) |->
      IF k = 0 THEN d
      ELSE IF k % 2 = 1 THEN ps[(k + 1) \div 2].start_stop.coords
      ELSE ps[k \div 2].end_stop.coords ]

\* pairs = [(p_idx, d_idx), ...]
Pairs(ps) == [ i \in 1 .. Len(ps) |-> <<2 * i - 1, 2 * i>> ]

\* the path cut before the end node: the append after the loop left out
Routes_NoReturn(ps) ==
  { <<0>> \o p : p \in Perms(1 .. 2 * Len(ps)) }

\* the routes of the one vehicle: from node 0 through every other node once
\* and back to node 0 (no node is optional: the model has no disjunction)
Routes(ps) ==
  { <<0>> \o p \o <<0>> : p \in Perms(1 .. 2 * Len(ps)) }

\* position (1-based) of node v on route r, v # 0
Pos(r, v) == CHOOSE k \in 1 .. Len(r) : r[k] = v

RECURSIVE Cumul(_, _, _)
\* value of the "Dist" dimension at the k-th entry of route r: slack 0 and
\* start cumul fixed to zero, so it is the sum of dist_fn over the arcs
\* before it
Cumul(locs, r, k) ==
  IF k = 1 THEN 0
  ELSE Cumul(locs, r, k - 1) + Dist(locs[r[k - 1]], locs[r[k]])

\* AddDimension(t_idx, 0, 100000, True, "Dist"): every cumul, the one at the
\* end of the route included, stays within the capacity
WithinCapacity(locs, r) == Cumul(locs, r, Len(r)) <= DistCapacity

\* the pair registered as a hint to the search only, with no order imposed
PickupBeforeDelivery_HintOnly(r, pr) == TRUE

\* AddPickupAndDelivery(pi, di): the routing model visits the pickup of a
\* registered pair before its delivery on the route
PickupBeforeDelivery(r, pr) == Pos(r, pr[1]) < Pos(r, pr[2])

\* solver().Add(d_dim.CumulVar(pi) <= d_dim.CumulVar(di))
CumulOrdered(locs, r, pr) ==
  Cumul(locs, r, Pos(r, pr[1])) <= Cumul(locs, r, Pos(r, pr[2]))

\* the constraints solve_vrp posts on a route (VehicleVar(pi) = VehicleVar(di)
\* holds of every route: there is one vehicle)
Feasible(locs, ps, r) ==
  /\ \A i \in 1 .. Len(ps) : PickupBeforeDelivery(r, Pairs(ps)[i])
  /\ \A i \in 1 .. Len(ps) : CumulOrdered(locs, r, Pairs(ps)[i])
  /\ WithinCapacity(locs, r)

\* the results SolveWithParameters can give: a route that meets the
\* constraints, (None, []) when there is none.  Which feasible route the
\* search settles on is left open.
solve_vrp(d, ps) ==
  LET locs == Locs(d, ps)
      sols == { r \in Routes(ps) : Feasible(locs, ps, r) }
  IN  IF sols = {} THEN { [solution |-> None, path |-> << >>] }
      ELSE { [solution |-> r,
              path |-> [ k \in 1 .. Len(r) |-> locs[r[k]] ]] : r \in sols }

\* ---------------------------------------------------------- get_osrm_data
\* the route a working road network service answers for the waypoints:
\* a geometry that follows the waypoints through one more shape point per
\* leg, a distance in metres and a duration in seconds
OsrmRoute(coords_list) ==
  [ geometry |->
      [ k \in 1 .. 2 * Len(coords_list) - 1 |->
          IF k % 2 = 1 THEN coords_list[(k + 1) \div 2]
          ELSE << (coords_list[k \div 2][1] + coords_list[k \div 2 + 1][1]) \div 2,
                  coords_list[k \div 2][2] >> ],
    distance |-> 1500 * (Len(coords_list) - 1),
    duration |-> 90 * (Len(coords_list) - 1) ]

\* the fallback of the short list taken for the failed request as well
get_osrm_data_EmptyFallback(coords_list) ==
  IF Len(coords_list) < 2
  THEN { [call |-> "none", road |-> << >>, dist |-> 0, dur |-> 0] }
  ELSE { [call |-> "ok", road |-> OsrmRoute(coords_list).geometry,
          dist |-> OsrmRoute(coords_list).distance,
          dur |-> OsrmRoute(coords_list).duration],
         [call |-> "fail", road |-> << >>, dist |-> 0, dur |-> 0] }

\* the results get_osrm_data can give: nothing is requested for fewer than
\* two waypoints; otherwise the decoded route, or, when the request or the
\* decoding raises, the waypoints themselves with distance and duration 0
get_osrm_data(coords_list) ==
  IF Len(coords_list) < 2
  THEN { [call |-> "none", road |-> << >>, dist |-> 0, dur |-> 0] }
  ELSE { [call |-> "ok", road |-> OsrmRoute(coords_list).geometry,
          dist |-> OsrmRoute(coords_list).distance,
          dur |-> OsrmRoute(coords_list).duration],
         [call |-> "fail", road |-> coords_list, dist |-> 0, dur |-> 0] }

\* ------------------------------------------------------------ update_system
RECURSIVE Gcd(_, _)
Gcd(a, b) == IF b = 0 THEN a ELSE Gcd(b, a % b)

\* the number n / d (Python's true division), as a fraction in lowest terms
Quot(n, d) == [num |-> n \div Gcd(n, d), den |-> d \div Gcd(n, d)]

\* the metrics of the empty plan, (0, 0)
ZeroMetrics == << Quot(0, 1), Quot(0, 1) >>

\* the name of the last stop at c instead of the first
StopName_LastMatch(stops, c) ==
  IF \E k \in 1 .. Len(stops) : stops[k].coords = c
  THEN stops[CHOOSE k \in 1 .. Len(stops) :
               /\ stops[k].coords = c
               /\ \A j \in k + 1 .. Len(stops) : stops[j].coords # c].name
  ELSE DefaultStopName

\* next((s['name'] for s in nearby_stops if s['coords'] == c), "정류장")
StopName(stops, c) ==
  IF \E k \in 1 .. Len(stops) : stops[k].coords = c
  THEN stops[CHOOSE k \in 1 .. Len(stops) :
               /\ stops[k].coords = c
               /\ \A j \in 1 .. k - 1 : stops[j].coords # c].name
  ELSE DefaultStopName

\* the names list built from path_coords
Names(d, stops, path) ==
  [ k \in 1 .. Len(path) |->
      IF path[k] = d THEN DepotLabel ELSE StopName(stops, path[k]) ]

\* update_system that stores the path and the names of a solution but not
\* the metrics
update_system_StaleMetrics(d, ps, ev) ==
  /\ UNCHANGED returned
  /\ IF ps = << >>
     THEN /\ current_route_path' = None
          /\ summary' = << >>
          /\ metrics' = ZeroMetrics
          /\ path_coords' = << >>
          /\ event' = [ev EXCEPT !.recompute = TRUE]
     ELSE \E s \in { [sol |-> r.solution # None, path |-> r.path] :
                       r \in solve_vrp(d, ps) } :
            /\ path_coords' = s.path
            /\ IF s.sol
               THEN \E o \in get_osrm_data(s.path) :
                      /\ current_route_path' = o.road
                      /\ UNCHANGED metrics
                      /\ summary' = Names(d, nearby_stops, s.path)
                      /\ event' = [ev EXCEPT !.recompute = TRUE,
                                             !.solver = "ok", !.osrm = o.call]
               ELSE /\ UNCHANGED <<current_route_path, summary, metrics>>
                    /\ event' = [ev EXCEPT !.recompute = TRUE,
                                           !.solver = "fail"]

\* update_system without its first two lines: the empty list is solved too
update_system_NoEmptyCheck(d, ps, ev) ==
  /\ UNCHANGED returned
  /\ \E s \in { [sol |-> r.solution # None, path |-> r.path] :
                  r \in solve_vrp(d, ps) } :
       /\ path_coords' = s.path
       /\ IF s.sol
          THEN \E o \in get_osrm_data(s.path) :
                 /\ current_route_path' = o.road
                 /\ metrics' = << Quot(o.dist, 1000), Quot(o.dur, 60) >>
                 /\ summary' = Names(d, nearby_stops, s.path)
                 /\ event' = [ev EXCEPT !.recompute = TRUE,
                                        !.solver = "ok", !.osrm = o.call]
          ELSE /\ UNCHANGED <<current_route_path, summary, metrics>>
               /\ event' = [ev EXCEPT !.recompute = TRUE, !.solver = "fail"]

\* update_system() called by handler ev when the depot is d and the requests
\* are ps; of sol it reads the truth value alone
update_system(d, ps, ev) ==
  /\ UNCHANGED returned
  /\ IF ps = << >>
     THEN /\ current_route_path' = None
          /\ summary' = << >>
          /\ metrics' = ZeroMetrics
          /\ path_coords' = << >>
          /\ event' = [ev EXCEPT !.recompute = TRUE]
     ELSE \E s \in { [sol |-> r.solution # None, path |-> r.path] :
                       r \in solve_vrp(d, ps) } :
            /\ path_coords' = s.path
            /\ IF s.sol
               THEN \E o \in get_osrm_data(s.path) :
                      /\ current_route_path' = o.road
                      /\ metrics' = << Quot(o.dist, 1000), Quot(o.dur, 60) >>
                      /\ summary' = Names(d, nearby_stops, s.path)
                      /\ event' = [ev EXCEPT !.recompute = TRUE,
                                             !.solver = "ok", !.osrm = o.call]
               ELSE /\ UNCHANGED <<current_route_path, summary, metrics>>
                    /\ event' = [ev EXCEPT !.recompute = TRUE,
                                           !.solver = "fail"]

\* a handler that does not call update_system
NoRecompute(ev) ==
  /\ UNCHANGED returned
  /\ path_coords' = << >>
  /\ event' = ev

\* the record of a handler before it has called anything
Event(kind, branch) ==
  [kind |-> kind, branch |-> branch, recompute |-> FALSE,
   solver |-> "none", osrm |-> "none"]

\* -------------------------------------------------------------------- main
\* the first stop of the catalog, whatever its distance
Nearest_First(stops, pos) == stops[1]

\* min(nearby_stops, key=lambda x: get_distance(*pos, *x['coords'])): the
\* first stop of the catalog at the least distance
Nearest(stops, pos) ==
  stops[CHOOSE k \in 1 .. Len(stops) :
          /\ \A j \in 1 .. Len(stops) :
               Dist(pos, stops[k].coords) <= Dist(pos, stops[j].coords)
          /\ \A j \in 1 .. k - 1 :
               Dist(pos, stops[j].coords) > Dist(pos, stops[k].coords)]

\* passengers.pop() without the index: the last request goes
Pop_Last(ps, i) == [ k \in 1 .. Len(ps) - 1 |-> ps[k] ]

\* passengers.pop(i), i counted from 1 here
Pop(ps, i) == [ k \in 1 .. Len(ps) - 1 |-> IF k < i THEN ps[k] ELSE ps[k + 1] ]

\* the session after its first run: the catalog is what fetch_stops_goyang
\* returned, the stops or [] when the request failed
Init ==
  /\ depot = InitDepot
  /\ passengers = << >>
  /\ nearby_stops \in { Catalog, << >> }
  /\ temp_p = None
  /\ current_route_path = None
  /\ summary = << >>
  /\ metrics = ZeroMetrics
  /\ last_click = None
  /\ mode = "idle"
  /\ path_coords = << >>
  /\ event = Event("init", "init")
  /\ returned = None

\* the button "차고지 편집"
EditDepot ==
  /\ mode' = "depot"
  /\ NoRecompute(Event("edit_depot", "mode"))
  /\ UNCHANGED <<depot, passengers, nearby_stops, temp_p, current_route_path,
                 summary, metrics, last_click>>

\* the button "탑승객 추가"
AddPassenger ==
  /\ mode' = "pass"
  /\ NoRecompute(Event("add_passenger", "mode"))
  /\ UNCHANGED <<depot, passengers, nearby_stops, temp_p, current_route_path,
                 summary, metrics, last_click>>

\* a reset that also puts the depot back where it was at the start
Reset_ResetsDepot ==
  /\ passengers' = << >>
  /\ temp_p' = None
  /\ current_route_path' = None
  /\ summary' = << >>
  /\ metrics' = ZeroMetrics
  /\ mode' = "idle"
  /\ depot' = InitDepot
  /\ NoRecompute(Event("reset", "reset"))
  /\ UNCHANGED <<nearby_stops, last_click>>

\* a reset that leaves the pending pickup in the session
Reset_KeepsPending ==
  /\ passengers' = << >>
  /\ current_route_path' = None
  /\ summary' = << >>
  /\ metrics' = ZeroMetrics
  /\ mode' = "idle"
  /\ NoRecompute(Event("reset", "reset"))
  /\ UNCHANGED <<depot, nearby_stops, last_click, temp_p>>

\* the button "전체 데이터 초기화"
Reset ==
  /\ passengers' = << >>
  /\ temp_p' = None
  /\ current_route_path' = None
  /\ summary' = << >>
  /\ metrics' = ZeroMetrics
  /\ mode' = "idle"
  /\ NoRecompute(Event("reset", "reset"))
  /\ UNCHANGED <<depot, nearby_stops, last_click>>

\* a removal without the call of update_system()
Delete_NoRecompute(i) ==
  /\ i \in 1 .. Len(passengers)
  /\ passengers' = Pop(passengers, i)
  /\ NoRecompute(Event("delete", "delete"))
  /\ UNCHANGED <<depot, nearby_stops, temp_p, last_click, mode,
                 current_route_path, summary, metrics>>

\* a removal that also leaves the mode it was made in
Delete_ToIdle(i) ==
  /\ i \in 1 .. Len(passengers)
  /\ passengers' = Pop(passengers, i)
  /\ mode' = "idle"
  /\ update_system(depot, passengers', Event("delete", "delete"))
  /\ UNCHANGED <<depot, nearby_stops, temp_p, last_click>>

\* the button "삭제" of the i-th request
Delete(i) ==
  /\ i \in 1 .. Len(passengers)
  /\ passengers' = Pop(passengers, i)
  /\ update_system(depot, passengers', Event("delete", "delete"))
  /\ UNCHANGED <<depot, nearby_stops, temp_p, last_click, mode>>

\* a click at the position of the click handled last: nothing is done
ClickSame(pos) ==
  /\ pos = last_click
  /\ NoRecompute(Event("click", "same"))
  /\ UNCHANGED <<depot, passengers, nearby_stops, temp_p, current_route_path,
                 summary, metrics, last_click, mode>>

\* a new click while the catalog is empty: st.error, nothing else
ClickNoStops(pos) ==
  /\ pos # last_click
  /\ nearby_stops = << >>
  /\ last_click' = pos
  /\ NoRecompute(Event("click", "no_stops"))
  /\ UNCHANGED <<depot, passengers, nearby_stops, temp_p, current_route_path,
                 summary, metrics, mode>>

\* the depot branch taken without the comparison with last_click
ClickDepot_NoGuard(pos) ==
  /\ nearby_stops # << >>
  /\ mode = "depot"
  /\ last_click' = pos
  /\ depot' = pos
  /\ update_system(pos, passengers, Event("click", "depot"))
  /\ UNCHANGED <<passengers, nearby_stops, temp_p, mode>>

\* a new click in mode 'depot'
ClickDepot(pos) ==
  /\ pos # last_click
  /\ nearby_stops # << >>
  /\ mode = "depot"
  /\ last_click' = pos
  /\ depot' = pos
  /\ update_system(pos, passengers, Event("click", "depot"))
  /\ UNCHANGED <<passengers, nearby_stops, temp_p, mode>>

\* a new click in mode 'pass' while temp_p is None
ClickPickup(pos) ==
  /\ pos # last_click
  /\ nearby_stops # << >>
  /\ mode = "pass"
  /\ temp_p = None
  /\ last_click' = pos
  /\ temp_p' = Nearest(nearby_stops, pos)
  /\ NoRecompute(Event("click", "pickup"))
  /\ UNCHANGED <<depot, passengers, nearby_stops, current_route_path,
                 summary, metrics, mode>>

\* a new click in mode 'pass' while temp_p holds the pickup stop
ClickDropoff(pos) ==
  /\ pos # last_click
  /\ nearby_stops # << >>
  /\ mode = "pass"
  /\ temp_p # None
  /\ Len(passengers) < MaxPassengers
  /\ last_click' = pos
  /\ passengers' =
       Append(passengers,
              [start_stop |-> temp_p, end_stop |-> Nearest(nearby_stops, pos)])
  /\ temp_p' = None
  /\ update_system(depot, passengers', Event("click", "dropoff"))
  /\ UNCHANGED <<depot, nearby_stops, mode>>

\* a new click in mode 'idle'
ClickIdle(pos) ==
  /\ pos # last_click
  /\ nearby_stops # << >>
  /\ mode = "idle"
  /\ last_click' = pos
  /\ NoRecompute(Event("click", "idle"))
  /\ UNCHANGED <<depot, passengers, nearby_stops, temp_p, current_route_path,
                 summary, metrics, mode>>

\* the map reports a click at pos
Click(pos) ==
  \/ ClickSame(pos)
  \/ ClickNoStops(pos)
  \/ ClickDepot(pos)
  \/ ClickPickup(pos)
  \/ ClickDropoff(pos)
  \/ ClickIdle(pos)

Next ==
  \/ EditDepot
  \/ AddPassenger
  \/ Reset
  \/ \E i \in 1 .. MaxPassengers : Delete(i)
  \/ \E pos \in Clicks : Click(pos)

Spec == Init /\ [][Next]_vars

\* ------------------------------------------- solve_vrp called on its own
\* the requests that can be made of the stops the clicks resolve to
Requests ==
  { [start_stop |-> Nearest(Catalog, a), end_stop |-> Nearest(Catalog, b)] :
      a \in Clicks, b \in Clicks }

\* the non-empty request lists of at most MaxPassengers requests
RequestLists == UNION { [1 .. n -> Requests] : n \in 1 .. MaxPassengers }

\* a depot the session can have and a request list it can hold
SolverInit ==
  /\ depot \in {InitDepot} \cup Clicks
  /\ passengers \in RequestLists
  /\ nearby_stops = Catalog
  /\ temp_p = None
  /\ current_route_path = None
  /\ summary = << >>
  /\ metrics = ZeroMetrics
  /\ last_click = None
  /\ mode = "idle"
  /\ path_coords = << >>
  /\ event = Event("init", "init")
  /\ returned = None

\* sol, path_coords = solve_vrp(depot, passengers)
SolveVrp ==
  /\ returned = None
  /\ returned' \in solve_vrp(depot, passengers)
  /\ UNCHANGED <<depot, passengers, nearby_stops, temp_p, current_route_path,
                 summary, metrics, last_click, mode, path_coords, event>>

SolverNext == SolveVrp

SolverSpec == SolverInit /\ [][SolverNext]_vars

\* ---- update_system called on its own, from the session states its callers
\* ---- leave it

\* mode, pending pickup and last click at the time of a call
CallContexts ==
  { [mode |-> m, temp_p |-> t, last_click |-> c] :
      m \in {"depot", "pass"}, t \in {None, Catalog[1]}, c \in Clicks }

\* a plan left in the session by an earlier recompute
StalePlan ==
  LET path == << InitDepot, Catalog[1].coords, Catalog[2].coords, InitDepot >>
  IN  [path |-> path, summary |-> Names(InitDepot, Catalog, path),
       metrics |-> ZeroMetrics]

\* the session just before a handler calls update_system()
UpdateInit ==
  /\ depot \in {InitDepot} \cup Clicks
  /\ passengers \in { << >> } \cup RequestLists
  /\ nearby_stops = Catalog
  /\ \E c \in CallContexts :
       /\ mode = c.mode
       /\ temp_p = c.temp_p
       /\ last_click = c.last_click
  /\ \E p \in { [path |-> None, summary |-> << >>, metrics |-> ZeroMetrics],
                StalePlan } :
       /\ current_route_path = p.path
       /\ summary = p.summary
       /\ metrics = p.metrics
  /\ path_coords = << >>
  /\ event = Event("init", "init")
  /\ returned = None

\* update_system() that also empties the pending pickup
UpdateSystem_ClearsPending ==
  /\ event.kind = "init"
  /\ update_system(depot, passengers, Event("update_system", "call"))
  /\ temp_p' = None
  /\ UNCHANGED <<depot, passengers, nearby_stops, last_click, mode>>

\* update_system(): the only session keys it assigns are
\* current_route_path, summary and metrics
UpdateSystem ==
  /\ event.kind = "init"
  /\ update_system(depot, passengers, Event("update_system", "call"))
  /\ UNCHANGED <<depot, passengers, nearby_stops, temp_p, last_click, mode>>

UpdateNext == UpdateSystem

UpdateSpec == UpdateInit /\ [][UpdateNext]_vars

\* ---- get_distance called on its own, for three points of one meridian

\* the points: latitudes 0 .. MaxLat, in units of 1/UnitsPerMetre metre
Points == { <<lat, 0>> : lat \in 0 .. MaxLat }

\* three coordinates, no distance computed yet
DistInit ==
  /\ depot = InitDepot
  /\ passengers = << >>
  /\ nearby_stops = << >>
  /\ temp_p = None
  /\ current_route_path = None
  /\ summary = << >>
  /\ metrics = ZeroMetrics
  /\ last_click = None
  /\ mode = "idle"
  /\ path_coords = << >>
  /\ event = Event("init", "init")
  /\ returned \in { [a |-> a, b |-> b, c |-> c, dist |-> None] :
                      a \in Points, b \in Points, c \in Points }

\* get_distance(A, B), get_distance(B, C), get_distance(A, C)
GetDistance ==
  /\ returned.dist = None
  /\ returned' = [returned EXCEPT
                    !.dist = [ab |-> Dist(returned.a, returned.b),
                              bc |-> Dist(returned.b, returned.c),
                              ac |-> Dist(returned.a, returned.c)]]
  /\ UNCHANGED <<depot, passengers, nearby_stops, temp_p, current_route_path,
                 summary, metrics, last_click, mode, path_coords, event>>

DistNext == GetDistance

DistSpec == DistInit /\ [][DistNext]_vars

\* ============================================================ properties
\* the number of requests of the list solve_vrp was called with
N == Len(passengers)

\* solve_vrp returned a solution
Solved == returned # None /\ returned.solution # None

\* C1: every tour solve_vrp returns has each request's pickup node at a
\* strictly smaller position than that request's dropoff node, also when
\* pickup and dropoff coordinates coincide.
C1_PickupBeforeDropoff ==
  Solved =>
    \A i \in 1 .. N :
      \E kp, kd \in 1 .. Len(returned.solution) :
        /\ returned.solution[kp] = 2 * i - 1
        /\ returned.solution[kd] = 2 * i
        /\ kp < kd

\* C1 witness: a tour was returned for two requests of which one has its
\* pickup and its dropoff at the same stop
C1_Witness ==
  /\ Solved
  /\ N = 2
  /\ \E i \in 1 .. N : passengers[i].start_stop = passengers[i].end_stop

\* C6: the returned path begins and ends at the depot and has each of the
\* 2n pickup and dropoff nodes exactly once in between: 2n+2 entries.
C6_ClosedTour ==
  Solved =>
    LET r == returned.solution
        path == returned.path
    IN  /\ Len(path) = 2 * N + 2
        /\ Len(r) = Len(path)
        /\ path[1] = depot
        /\ path[Len(path)] = depot
        /\ r[1] = 0
        /\ r[Len(r)] = 0
        /\ \A v \in 1 .. 2 * N :
             Cardinality({ k \in 2 .. Len(r) - 1 : r[k] = v }) = 1
        /\ \A k \in 2 .. Len(r) - 1 :
             /\ r[k] \in 1 .. 2 * N
             /\ path[k] = IF r[k] % 2 = 1
                          THEN passengers[(r[k] + 1) \div 2].start_stop.coords
                          ELSE passengers[r[k] \div 2].end_stop.coords

\* C6 witness: a path of six entries was returned for two requests between
\* different stops
C6_Witness ==
  /\ Solved
  /\ Len(returned.path) = 6
  /\ \A i \in 1 .. N : passengers[i].start_stop # passengers[i].end_stop

\* C3: solve_vrp reports success for every depot and every non-empty request
\* list: update_system never sees the (None, []) result.
C3_SolverAlwaysSucceeds == event.solver # "fail"

\* the RoutePlan of the session
Plan ==
  [path |-> current_route_path, summary |-> summary, metrics |-> metrics]

EmptyPlan == [path |-> None, summary |-> << >>, metrics |-> ZeroMetrics]

\* the RoutePlans that can be derived from depot d, requests ps and catalog
\* stops
Plans(d, ps, stops) ==
  IF ps = << >> THEN { EmptyPlan }
  ELSE UNION {
         { [path |-> o.road,
            summary |-> Names(d, stops, r.path),
            metrics |-> << Quot(o.dist, 1000), Quot(o.dur, 60) >>] :
             o \in get_osrm_data(r.path) } :
           r \in { x \in solve_vrp(d, ps) : x.solution # None } }

\* the handler that ran last is one that changes the depot or the requests
Mutation ==
  \/ event.kind \in {"delete", "reset"}
  \/ event.kind = "click" /\ event.branch \in {"depot", "dropoff"}

\* C2: after a mutation handler has run, the RoutePlan in the session is
\* one derived from the current depot and the current requests.
C2_PlanIsCurrent ==
  Mutation => Plan \in Plans(depot, passengers, nearby_stops)

\* C4: when update_system runs with no requests, the plan is the empty plan
\* and neither the optimizer nor the road network service is called.
C4_EmptyRequestsClearPlan ==
  (event.recompute /\ passengers = << >>) =>
    /\ Plan = EmptyPlan
    /\ event.solver = "none"
    /\ event.osrm = "none"
    /\ path_coords = << >>

\* C4 witness: the last request was removed and update_system ran
C4_Witness ==
  /\ event.kind = "delete"
  /\ event.recompute
  /\ passengers = << >>

NewPick == event'.kind = "click" /\ event'.branch # "same"

\* stop t of the catalog is at the least distance from pos
IsNearest(t, pos) ==
  /\ \E j \in 1 .. Len(nearby_stops) : nearby_stops[j] = t
  /\ \A j \in 1 .. Len(nearby_stops) :
       Dist(pos, t.coords) <= Dist(pos, nearby_stops[j].coords)

\* C7: in mode 'pass' with stops loaded, a new pick either stores the nearest
\* stop as the pending pickup and leaves the requests alone, or, with a
\* pickup pending, appends one request (pending pickup, nearest stop),
\* clears the pending pickup and recomputes; the requests grow in no other
\* step.
C7_TwoPhaseCapture ==
  [][ /\ (NewPick /\ mode = "pass" /\ nearby_stops # << >>) =>
           IF temp_p = None
           THEN /\ IsNearest(temp_p', last_click')
                /\ passengers' = passengers
                /\ ~event'.recompute
           ELSE /\ Len(passengers') = Len(passengers) + 1
                /\ \A k \in 1 .. Len(passengers) : passengers'[k] = passengers[k]
                /\ passengers'[Len(passengers')].start_stop = temp_p
                /\ IsNearest(passengers'[Len(passengers')].end_stop, last_click')
                /\ temp_p' = None
                /\ event'.recompute
      /\ Len(passengers') > Len(passengers) =>
           NewPick /\ mode = "pass" /\ temp_p # None
    ]_vars

\* C7 witness: a second request was completed by a pick that resolved to
\* another stop than its pickup
C7_Witness ==
  /\ event.kind = "click"
  /\ event.branch = "dropoff"
  /\ N = 2
  /\ passengers[2].start_stop # passengers[2].end_stop
  /\ temp_p = None

\* C8: after "add passenger" is selected the mode is 'pass' and no pickup
\* is pending.
C8_AddPassengerClearsPending ==
  event.kind = "add_passenger" => (mode = "pass" /\ temp_p = None)

\* C9: with an empty catalog a new pick in mode 'depot' still moves the
\* depot to the picked position and recomputes.
C9_DepotMovesWithoutStops ==
  (event.kind = "click" /\ event.branch # "same"
     /\ nearby_stops = << >> /\ mode = "depot") =>
    (depot = last_click /\ event.recompute)

\* C10 as claimed: the mode changes only when a mode button is selected;
\* picks, completed requests, removals and reset leave it unchanged.
C10_OnlyModeButtonsChangeMode ==
  [][ mode' # mode => event'.kind \in {"edit_depot", "add_passenger"} ]_vars

\* C10 as amended: picks, completed requests and removals leave the mode
\* unchanged; the mode changes only when a mode button or reset is
\* selected, and it returns to idle only by reset.
C10_ModeChangesOnlyByButtonOrReset ==
  [][ /\ event'.kind \in {"click", "delete"} => mode' = mode
      /\ mode' # mode =>
           event'.kind \in {"edit_depot", "add_passenger", "reset"}
      /\ (mode # "idle" /\ mode' = "idle") => event'.kind = "reset"
    ]_vars

\* C10 witness: a request was removed in mode 'pass' and the mode is still
\* 'pass'
C10_Witness ==
  /\ event.kind = "delete"
  /\ mode = "pass"
  /\ N = 1

C12_UpdateSystemFrame ==
  [][event'.recompute =>
       UNCHANGED <<passengers, depot, nearby_stops, mode, temp_p,
                   last_click>>]_vars

\* C12 witness: update_system ran with a pending pickup in the session, the
\* solver failed and the earlier plan is still there
C12_Witness ==
  /\ event.kind = "update_system"
  /\ event.solver = "fail"
  /\ temp_p # None
  /\ current_route_path # None

\* the waypoints a stored path was made of: the path itself when it is the
\* fallback, every other point of it when it is the road geometry
Waypoints(road) ==
  { road } \cup
  { [ k \in 1 .. (Len(road) + 1) \div 2 |-> road[2 * k - 1] ] }

Measured == returned # None /\ returned.dist # None

\* C14: get_distance(A, C) <= get_distance(A, B) + get_distance(B, C) for the
\* truncated distances the optimizer uses.
C14_Triangle ==
  Measured => returned.dist.ac <= returned.dist.ab + returned.dist.bc

\* C14 as amended: the truncated distances satisfy the triangle inequality
\* up to one metre.
C14_TriangleWithinOneMetre ==
  Measured => returned.dist.ac <= returned.dist.ab + returned.dist.bc + 1

\* C14 witness: three distinct points with B between A and C for which the
\* two legs sum to one metre less than the whole
C14_Witness ==
  /\ Measured
  /\ returned.a[1] < returned.b[1]
  /\ returned.b[1] < returned.c[1]
  /\ returned.dist.ac = returned.dist.ab + returned.dist.bc + 1

\* C16: in every state between handlers, a session without requests has the
\* empty plan: no path, no names, metrics (0, 0).
C16_NoRequestsNoPlan ==
  passengers = << >> =>
    /\ current_route_path = None
    /\ summary = << >>
    /\ metrics = ZeroMetrics

\* C16 witness: the requests were cleared by reset after clicks had been
\* handled
C16_Witness ==
  /\ event.kind = "reset"
  /\ passengers = << >>
  /\ last_click # None
  /\ nearby_stops # << >>

C18_IdleHasNoPending ==
  /\ [](mode = "idle" => temp_p = None)
  /\ [][\A pos \in Clicks :
          (mode = "idle" /\ Click(pos)) =>
            UNCHANGED <<depot, passengers, nearby_stops, temp_p,
                        current_route_path, summary, metrics, mode>>]_vars

\* C18 witness: a click was handled in mode idle after a reset that
\* followed a relocation of the depot
C18_Witness ==
  /\ mode = "idle"
  /\ event.kind = "click"
  /\ event.branch = "idle"
  /\ depot # InitDepot
  /\ temp_p = None

\* C19: a click at the position of the last click changes nothing in the
\* session, whatever the mode; every click at another position becomes the
\* last click; reset, the mode buttons and a removal leave the last click
\* as it is.
C19_RepeatedClickIgnored ==
  [][/\ \A pos \in Clicks :
          (pos = last_click /\ Click(pos)) =>
            UNCHANGED <<depot, passengers, nearby_stops, temp_p,
                        current_route_path, summary, metrics, last_click,
                        mode>>
     /\ \A pos \in Clicks :
          (pos # last_click /\ Click(pos)) => last_click' = pos
     /\ event'.kind \in {"reset", "edit_depot", "add_passenger", "delete"}
          => last_click' = last_click]_vars

\* C19 witness: in mode depot a click came again at the position of the
\* last click, which is not where the depot is
C19_Witness ==
  /\ event.kind = "click"
  /\ event.branch = "same"
  /\ mode = "depot"
  /\ nearby_stops # << >>
  /\ depot # last_click

\* C20: reset empties the request list, the pending pickup and the plan and
\* sets the mode to idle; it leaves the depot, relocated or not, the stop
\* catalog and the last click as they are. In every reachable state the
\* session has one depot, a coordinate pair.
C20_ResetKeepsDepot ==
  /\ [](/\ depot # None
        /\ depot \in {InitDepot} \cup Clicks)
  /\ [][event'.kind = "reset" =>
          /\ passengers' = << >>
          /\ temp_p' = None
          /\ current_route_path' = None
          /\ summary' = << >>
          /\ metrics' = ZeroMetrics
          /\ mode' = "idle"
          /\ UNCHANGED <<depot, nearby_stops, last_click>>]_vars

\* C20 witness: reset was pressed in a session whose depot had been moved
C20_Witness ==
  /\ event.kind = "reset"
  /\ depot # InitDepot
  /\ last_click # None
  /\ mode = "idle"

====
